---------------------------- MODULE Spec2Model ----------------------------
(***************************************************************************)
(* A model of the SubRip (.srt) handler: the time codec (to_secs,          *)
(* to_timestr), SubtextEntry, and SubtextLayer with its parser, check,     *)
(* insert, move_by, move_to, sync and serialization (src/subrip.py, the    *)
(* module src/srtmanip.py imports).                                        *)
(*                                                                         *)
(* Times are Python numbers; the model keeps them as exact rationals       *)
(* <<n, d>> (d > 0, lowest terms), so that the division in sync and the    *)
(* millisecond rounding in to_timestr are computed, not assumed.  Strings  *)
(* are sequences of one-character strings, so that formatting, splitting   *)
(* into lines and the regular expressions are computed on characters.      *)
(*                                                                         *)
(* Where a value is used several times it is bound once, as the element of *)
(* a one-element set: The({body : x \in {value}}) is "LET x == value IN    *)
(* body" with value computed a single time.                                *)
(***************************************************************************)
EXTENDS Integers, Sequences, FiniteSets, TLC

VARIABLES subs,        \* the SubtextLayer: a sequence of entries
          start_from,  \* SubtextLayer.start_from
          pc,          \* "loaded" after construction, "done" after the call
          call,        \* the call made: a record with field op and its arguments
          pre,         \* the layer as it was when the call started
          ret,         \* what the call returned
          err          \* the exception the call raised, or NoErr

vars == <<subs, start_from, pc, call, pre, ret, err>>

-----------------------------------------------------------------------------
(* Exact rational arithmetic for Python's numbers.                          *)

\* the element of a one-element set
The(S) == CHOOSE x \in S : TRUE

RECURSIVE Gcd(_, _)
Gcd(a, b) == IF b = 0 THEN a ELSE The({Gcd(b, r) : r \in {a % b}})

Abs(x) == IF x < 0 THEN -x ELSE x

\* the number n / d
Rat(n0, d0) ==
    The({The({<<(IF d < 0 THEN -n ELSE n) \div g, Abs(d) \div g>>
                 : g \in {Gcd(Abs(n), Abs(d))}})
            : n \in {n0}, d \in {d0}})

RInt(k) == <<k, 1>>
RAdd(x, y) == Rat(x[1] * y[2] + y[1] * x[2], x[2] * y[2])
RSub(x, y) == Rat(x[1] * y[2] - y[1] * x[2], x[2] * y[2])
RMul(x, y) == Rat(x[1] * y[1], x[2] * y[2])
RDiv(x, y) == Rat(x[1] * y[2], x[2] * y[1])
RLt(x, y) == x[1] * y[2] < y[1] * x[2]
RLe(x, y) == x[1] * y[2] <= y[1] * x[2]
RGt(x, y) == RLt(y, x)
RGe(x, y) == RLe(y, x)
RIsZero(x) == x[1] = 0
\* Python's x // k and x % k for a positive integer k (floor semantics)
RFloorDiv(x, k) == x[1] \div (x[2] * k)
RMod(x, k) == RSub(x, RInt(k * RFloorDiv(x, k)))

-----------------------------------------------------------------------------
(* Characters and strings.                                                  *)

DigitChars == <<"0", "1", "2", "3", "4", "5", "6", "7", "8", "9">>
IsDigit(c) == \E i \in 1..10 : DigitChars[i] = c
DigitVal(c) == (CHOOSE i \in 1..10 : DigitChars[i] = c) - 1
IsSpace(c) == c \in {" ", "\t", "\n", "\r"}

RECURSIVE NatStr(_)
NatStr(n) == IF n < 10 THEN <<DigitChars[n + 1]>>
             ELSE The({NatStr(q) \o <<DigitChars[(n % 10) + 1]>> : q \in {n \div 10}})

\* str(int)
IntStr(n) == IF n < 0 THEN <<"-">> \o NatStr(-n) ELSE NatStr(n)

RECURSIVE Zeros(_)
Zeros(k) == IF k <= 0 THEN <<>> ELSE <<"0">> \o Zeros(k - 1)

\* '{:0Wd}'.format(n): sign-aware zero padding to width w
ZPad(n, w) ==
    IF n < 0 THEN <<"-">> \o Zeros(w - 1 - Len(NatStr(-n))) \o NatStr(-n)
    ELSE Zeros(w - Len(NatStr(n))) \o NatStr(n)

\* int() of the first n characters of s, all digits
RECURSIVE DigitsValTo(_, _)
DigitsValTo(s, n) == IF n = 0 THEN 0
                     ELSE 10 * DigitsValTo(s, n - 1) + DigitVal(s[n])
DigitsVal(s) == DigitsValTo(s, Len(s))

RECURSIVE Pow10(_)
Pow10(k) == IF k = 0 THEN 1 ELSE 10 * Pow10(k - 1)

AllDigits(s) == \A i \in 1..Len(s) : IsDigit(s[i])

\* str.isnumeric(): non-empty and every character numeric
IsNumeric(s) == s # <<>> /\ AllDigits(s)

\* sep.join(parts), from part i on
RECURSIVE JoinFrom(_, _, _)
JoinFrom(parts, sep, i) ==
    IF i > Len(parts) THEN <<>>
    ELSE IF i = Len(parts) THEN parts[i]
    ELSE parts[i] \o sep \o JoinFrom(parts, sep, i + 1)

\* sep.join(parts)
Join(parts0, sep) == The({JoinFrom(parts, sep, 1) : parts \in {parts0}})

\* index of the first c in s at or after i, or 0
RECURSIVE Find(_, _, _)
Find(s, c, i) == IF i > Len(s) THEN 0
                 ELSE IF s[i] = c THEN i ELSE Find(s, c, i + 1)

\* the position after the longest run of digits (\d*) starting at i
RECURSIVE SkipDigits(_, _)
SkipDigits(s, i) == IF i <= Len(s) /\ IsDigit(s[i]) THEN SkipDigits(s, i + 1) ELSE i

\* the position after the longest run of blanks (\s*) starting at i
RECURSIVE SkipSpace(_, _)
SkipSpace(s, i) == IF i <= Len(s) /\ IsSpace(s[i]) THEN SkipSpace(s, i + 1) ELSE i

\* the position before the longest run of blanks ending at i
RECURSIVE SkipSpaceBack(_, _)
SkipSpaceBack(s, i) == IF i >= 1 /\ IsSpace(s[i]) THEN SkipSpaceBack(s, i - 1) ELSE i

\* str.strip()
Strip(s0) ==
    The({SubSeq(s, SkipSpace(s, 1), SkipSpaceBack(s, Len(s))) : s \in {s0}})

-----------------------------------------------------------------------------
(* The time codec.                                                          *)

\* the position after "\d+:" at i, or 0 when the text at i is not of that form
ColonPart(t, i) ==
    LET j == SkipDigits(t, i)
    IN  IF j > i /\ j <= Len(t) /\ t[j] = ":" THEN j + 1 ELSE 0

\* whether "\d+[.,]?\d*$" matches t from i
SecsPartOk(t, i) ==
    LET j == SkipDigits(t, i)
        k == IF j <= Len(t) /\ t[j] \in {".", ","} THEN SkipDigits(t, j + 1) ELSE j
    IN  j > i /\ k = Len(t) + 1

\* float(p.rstrip(':').replace(',', '.')) of the part of t from i to its end
SecsPartVal(t, i) ==
    LET j == SkipDigits(t, i)
        frac == SubSeq(t, j + 1, Len(t))
    IN  RAdd(RInt(DigitsVal(SubSeq(t, i, j - 1))), Rat(DigitsVal(frac), Pow10(Len(frac))))

\* to_secs of the unsigned time t, a and b the positions after its first and
\* second "\d+:" (0 when there is none): [ok |-> FALSE] is ValueError
UnsignedSecs(t, a, b) ==
    LET s == IF a = 0 THEN 1 ELSE IF b = 0 THEN a ELSE b
        \* missing groups are filled from the left with '00:'
        hours == IF b = 0 THEN 0 ELSE DigitsVal(SubSeq(t, 1, a - 2))
        mins == IF a = 0 THEN 0
                ELSE IF b = 0 THEN DigitsVal(SubSeq(t, 1, a - 2))
                ELSE DigitsVal(SubSeq(t, a, b - 2))
    IN  IF ~SecsPartOk(t, s) THEN [ok |-> FALSE, val |-> RInt(0)]
        ELSE [ok |-> TRUE,
              val |-> RAdd(RInt(hours * 3600 + mins * 60), SecsPartVal(t, s))]

\* to_secs(time): [ok |-> FALSE] is ValueError
to_secs(time) ==
    LET neg == time # <<>> /\ time[1] = "-"
        t0 == IF neg THEN Tail(time) ELSE time
        \* "$" also matches just before a final newline
        t1 == IF t0 # <<>> /\ t0[Len(t0)] = "\n" THEN SubSeq(t0, 1, Len(t0) - 1) ELSE t0
    IN  The({[ok |-> r.ok, val |-> IF neg THEN RSub(RInt(0), r.val) ELSE r.val]
               : r \in UNION {UNION {{UnsignedSecs(t, a, b)
                                        : b \in {IF a = 0 THEN 0 ELSE ColonPart(t, a)}}
                                     : a \in {ColonPart(t, 1)}}
                              : t \in {t1}}})

\* '{:.3f}'.format(x) for 0 <= x: x rounded to thousandths, ties to even
Milli(x) ==
    The({IF 2 * r < d THEN q
         ELSE IF 2 * r > d THEN q + 1
         ELSE IF q % 2 = 0 THEN q ELSE q + 1
            : q \in {(1000 * x[1]) \div x[2]}, r \in {(1000 * x[1]) % x[2]}, d \in {x[2]}})

\* the seconds field of to_timestr for ms thousandths of a second
SecsField(ms) ==
    The({IF Find(secs, ",", 1) = 2 THEN <<"0">> \o secs ELSE secs
            : secs \in {NatStr(ms \div 1000) \o <<",">> \o ZPad(ms % 1000, 3)}})

\* to_timestr without the zero-padding of the seconds field
to_timestrUnpadded(seconds0) ==
    The({The({ZPad(RFloorDiv(seconds, 3600), 2) \o <<":">>
                 \o ZPad(RFloorDiv(RMod(seconds, 3600), 1) \div 60, 2) \o <<":">>
                 \o NatStr(ms \div 1000) \o <<",">> \o ZPad(ms % 1000, 3)
                 : ms \in {Milli(sec60) : sec60 \in {RMod(seconds, 60)}}})
            : seconds \in {seconds0}})

\* to_timestr(seconds)
to_timestr(seconds0) ==
    The({The({ZPad(RFloorDiv(seconds, 3600), 2) \o <<":">>
                 \o ZPad(RFloorDiv(RMod(seconds, 3600), 1) \div 60, 2) \o <<":">>
                 \o SecsField(ms)
                 : ms \in {Milli(sec60) : sec60 \in {RMod(seconds, 60)}}})
            : seconds \in {seconds0}})

-----------------------------------------------------------------------------
(* SubtextEntry.                                                            *)

NoErr == [kind |-> "none", arg |-> 0]
Raise(kind, arg) == [kind |-> kind, arg |-> arg]

\* SubtextEntry.text setter: None, a string or a list of strings
TextSetter(text) ==
    IF text.kind = "none" THEN <<>>
    ELSE IF text.kind = "str" THEN <<text.v>>
    ELSE text.v

\* SubtextEntry(intime, outtime, text) with numeric times
SubtextEntry(intime, outtime, text) ==
    [intime |-> intime, outtime |-> outtime, text |-> TextSetter(text)]

\* SubtextEntry.dur
Dur(e) == RSub(e.outtime, e.intime)

\* SubtextEntry.move_by(offset)
EntryMoveBy(e, offset) ==
    LET e1 == [e EXCEPT !.intime = RAdd(e.intime, offset)]
    IN  [e1 EXCEPT !.outtime = RAdd(e1.outtime, offset)]

\* SubtextEntry.__str__
EntryStr(e) ==
    to_timestr(e.intime) \o <<" ", "-", "-", ">", " ">> \o to_timestr(e.outtime)
        \o <<"\n">> \o Join(e.text, <<"\n">>)

-----------------------------------------------------------------------------
(* SubtextLayer: __str__, check, insert, move_by, move_to, sync.            *)

\* SubtextLayer.__str__
LayerStr(layer, from) ==
    Join([i \in 1..Len(layer) |->
             IntStr((i - 1) + from) \o <<"\n">> \o EntryStr(layer[i]) \o <<"\n">>],
         <<"\n">>)

\* SubtextLayer.check: the log, a function from entry numbers to messages
CheckLog(layer) ==
    LET early(k) == RLe(layer[k].intime, layer[k - 1].intime)
        nodur(k) == RLe(Dur(layer[k]), RInt(0))
    IN  [k \in {j \in 2..Len(layer) : early(j) \/ nodur(j)} |->
            IF nodur(k) THEN "duration <= 0" ELSE "before or at previous entry"]

\* the index (1-based) the for loop of insert ends with: the first entry whose
\* intime is greater, or the last entry when the loop runs to its end
RECURSIVE InsertScan(_, _, _)
InsertScan(layer, intime, i) ==
    IF i >= Len(layer) THEN Len(layer)
    ELSE IF RGt(layer[i].intime, intime) THEN i
    ELSE InsertScan(layer, intime, i + 1)

\* ref.outtime > intime => ref.outtime = intime
Clamp(ref, intime) ==
    IF RGt(ref.outtime, intime) THEN [ref EXCEPT !.outtime = intime] ELSE ref

\* SubtextLayer.insert(intime, outtime, dur, text) with numeric arguments
LayerInsert(layer, intime, outtime0, dur, text) ==
    LET eps == Rat(1, 1000)
        outtime == IF RLt(outtime0, eps) /\ RGt(dur, eps) THEN RAdd(intime, dur)
                   ELSE outtime0
        new == SubtextEntry(intime, outtime, text)
        n == Len(layer)
    IN  IF layer = <<>> THEN <<new>>
        ELSE IF RLt(layer[n].intime, intime)
        THEN Append([layer EXCEPT ![n] = Clamp(layer[n], intime)], new)
        ELSE LET i == InsertScan(layer, intime, 1)
             IN  SubSeq(layer, 1, i - 1) \o <<new, Clamp(layer[i], intime)>>
                     \o SubSeq(layer, i + 1, n)

\* move_by with the start argument ignored: every entry is shifted
LayerMoveByAll(layer, offset, start) ==
    [i \in 1..Len(layer) |-> EntryMoveBy(layer[i], offset)]

\* move_by with "sub.intime > start" for "sub.intime >= start"
LayerMoveByAfter(layer, offset, start) ==
    [i \in 1..Len(layer) |->
        IF RGt(layer[i].intime, start) THEN EntryMoveBy(layer[i], offset) ELSE layer[i]]

\* SubtextLayer.move_by(offset, start) with numeric arguments
LayerMoveBy(layer, offset, start) ==
    [i \in 1..Len(layer) |->
        IF RGe(layer[i].intime, start) THEN EntryMoveBy(layer[i], offset) ELSE layer[i]]

\* the anchor search without its break: the last entry with intime >= start
AnchorLast(layer, start, i) ==
    LET S == {j \in i..Len(layer) : RGe(layer[j].intime, start)}
    IN  IF S = {} THEN 0 ELSE CHOOSE j \in S : \A k \in S : k <= j

\* the first entry (1-based) with intime >= start, or 0
RECURSIVE Anchor(_, _, _)
Anchor(layer, start, i) ==
    IF i > Len(layer) THEN 0
    ELSE IF RGe(layer[i].intime, start) THEN i
    ELSE Anchor(layer, start, i + 1)

\* move_to made a silent no-op when no entry has intime >= start
LayerMoveToSilent(layer, pos, start) ==
    LET a == Anchor(layer, start, 1)
    IN  IF a = 0
        THEN [subs |-> layer, err |-> NoErr]
        ELSE [subs |-> LayerMoveBy(layer, RSub(pos, layer[a].intime), start),
              err |-> NoErr]

\* SubtextLayer.move_to(pos, start): [subs, err]
LayerMoveTo(layer, pos, start) ==
    LET a == Anchor(layer, start, 1)
    IN  IF a = 0
        THEN \* offset is never bound: the call self.move_by(offset, start) raises
             [subs |-> layer, err |-> Raise("UnboundLocalError", 0)]
        ELSE [subs |-> LayerMoveBy(layer, RSub(pos, layer[a].intime), start),
              err |-> NoErr]

\* the loop of sync with dur read after intime is assigned, as for the first entry
RECURSIVE SyncLoopLate(_, _, _)
SyncLoopLate(layer, k, endpoint) ==
    IF k > Len(layer) THEN [subs |-> layer, err |-> NoErr]
    ELSE LET sub == layer[k]
             last == layer[Len(layer)]
         IN  IF RIsZero(last.intime)
             THEN [subs |-> layer, err |-> Raise("ZeroDivisionError", 0)]
             ELSE LET s1 == [sub EXCEPT !.intime =
                                RDiv(RMul(endpoint, sub.intime), last.intime)]
                      s2 == [s1 EXCEPT !.outtime = RAdd(s1.intime, Dur(s1))]
                  IN  The({SyncLoopLate(l, k + 1, endpoint)
                              : l \in {[layer EXCEPT ![k] = s2]}})

\* the loop of sync over self[1:], entry k next; last.intime is read on each turn
RECURSIVE SyncLoop(_, _, _)
SyncLoop(layer, k, endpoint) ==
    IF k > Len(layer) THEN [subs |-> layer, err |-> NoErr]
    ELSE LET sub == layer[k]
             last == layer[Len(layer)]
             dur == Dur(sub)
         IN  IF RIsZero(last.intime)
             THEN [subs |-> layer, err |-> Raise("ZeroDivisionError", 0)]
             ELSE LET s1 == [sub EXCEPT !.intime =
                                RDiv(RMul(endpoint, sub.intime), last.intime)]
                      s2 == [s1 EXCEPT !.outtime = RAdd(s1.intime, dur)]
                  IN  The({SyncLoop(l, k + 1, endpoint)
                              : l \in {[layer EXCEPT ![k] = s2]}})

\* the two assignments to first in sync
SyncFirst(first, startpoint) ==
    LET f1 == [first EXCEPT !.intime = startpoint]
    IN  [f1 EXCEPT !.outtime = RAdd(startpoint, Dur(f1))]

\* SubtextLayer.sync(startpoint, endpoint) with numeric arguments: [subs, err]
LayerSync(layer, startpoint, endpoint) ==
    IF Len(layer) < 2
    THEN \* first, *_, last = self
         [subs |-> layer, err |-> Raise("ValueError", 0)]
    ELSE The({SyncLoop(l, 2, endpoint)
                 : l \in {[layer EXCEPT ![1] = SyncFirst(layer[1], startpoint)]}})

-----------------------------------------------------------------------------
(* SubtextLayer.parse.                                                      *)

\* the position after "\d+:\d+:\d+[,.]\d+" at i, or 0
TimecodeEnd(s, i) ==
    LET a == ColonPart(s, i)
        b == IF a = 0 THEN 0 ELSE ColonPart(s, a)
        j == IF b = 0 THEN 0 ELSE SkipDigits(s, b)
        k == IF j = 0 THEN 0 ELSE SkipDigits(s, j + 1)
    IN  IF b # 0 /\ j > b /\ j <= Len(s) /\ s[j] \in {",", "."} /\ k > j + 1
        THEN k ELSE 0

\* the matches (one or none) of the regular expression timeline on a stripped
\* line: e1 the end of the first timecode, w1 the place of "-->" after \s+,
\* w2 the start of the second timecode after \s+, which ends the line
TimelineMatches(line) ==
    UNION {UNION {UNION {
        {[ok |-> TRUE, intime |-> SubSeq(line, 1, e1 - 1),
          outtime |-> SubSeq(line, w2, e2 - 1)]
            : e2 \in {e \in {TimecodeEnd(line, w2)} : e = Len(line) + 1}}
            : w2 \in {w \in {SkipSpace(line, w1 + 3)} : w > w1 + 3}}
            : w1 \in {w \in {SkipSpace(line, e1)} :
                         /\ w > e1
                         /\ w + 2 <= Len(line)
                         /\ SubSeq(line, w, w + 2) = <<"-", "-", ">">>}}
            : e1 \in {e \in {TimecodeEnd(line, 1)} : e # 0}}

\* timeline.match(line): the two groups, when it matches
TimelineMatch(line) ==
    The({IF found = {} THEN [ok |-> FALSE, intime |-> <<>>, outtime |-> <<>>]
         ELSE The(found)
            : found \in {TimelineMatches(line)}})

\* SubtextEntry(): the defaults 0.0, 0.0, None
NewEntry == SubtextEntry(RInt(0), RInt(0), [kind |-> "none"])

\* curr with "if text: curr.text = text"
WithText(curr, text) ==
    IF text # <<>> THEN [curr EXCEPT !.text = TextSetter([kind |-> "list", v |-> text])]
    ELSE curr

\* the 'rec#' branch as src/srthandler/__init__.py has it: a blank line where an
\* index is awaited is an error too
ParseIndexLineStrict(st, line, lineno) ==
    IF ~IsNumeric(line) THEN [st EXCEPT !.err = Raise("IndexLineError", lineno)]
    ELSE [st EXCEPT !.curr = <<NewEntry>>, !.state = "time"]

\* the branch of the parse loop for state 'rec#'
ParseIndexLine(st, line, lineno) ==
    IF IsNumeric(line) THEN [st EXCEPT !.curr = <<NewEntry>>, !.state = "time"]
    ELSE IF line # <<>> THEN [st EXCEPT !.err = Raise("IndexLineError", lineno)]
    ELSE st

\* the branch of the parse loop for state 'time'
ParseTimeLine(st, line, lineno) ==
    The({IF m.ok
         THEN [st EXCEPT !.curr = <<[st.curr[1] EXCEPT
                                       !.intime = to_secs(m.intime).val,
                                       !.outtime = to_secs(m.outtime).val]>>,
                         !.state = "text"]
         ELSE [st EXCEPT !.err = Raise("TimeLineError", lineno)]
            : m \in {TimelineMatch(line)}})

\* the branch of the parse loop for state 'text'
ParseTextLine(st, line) ==
    IF line = <<>>
    THEN [st EXCEPT !.subs = Append(st.subs, WithText(st.curr[1], st.text)),
                    !.text = <<>>, !.state = "rec#", !.curr = <<>>]
    ELSE [st EXCEPT !.text = Append(st.text, line)]

\* one turn of the loop "for lineno, line in enumerate(buff)"
ParseLine(st, rawline, lineno) ==
    The({IF st.state = "rec#" THEN ParseIndexLine(st, line, lineno)
         ELSE IF st.state = "time" THEN ParseTimeLine(st, line, lineno)
         ELSE ParseTextLine(st, line)
            : line \in {Strip(rawline)}})

RECURSIVE ParseLoop(_, _, _)
ParseLoop(st, buff, lineno) ==
    IF lineno >= Len(buff) \/ st.err # NoErr THEN st
    ELSE The({ParseLoop(st1, buff, lineno + 1)
                 : st1 \in {ParseLine(st, buff[lineno + 1], lineno)}})

\* "Handle the last entry"
ParseLast(st) ==
    IF st.err = NoErr /\ st.curr # <<>>
    THEN [st EXCEPT !.subs = Append(st.subs, WithText(st.curr[1], st.text))]
    ELSE st

\* the parser's variables as parse(buff) starts on a layer
ParseStart(layer) ==
    [state |-> "rec#", curr |-> <<>>, text |-> <<>>, subs |-> layer, err |-> NoErr]

\* parse made all-or-nothing: a failed parse gives back the layer it was given
LayerParseAtomic(layer, buff0) ==
    The({[subs |-> IF st.err = NoErr THEN st.subs ELSE layer, err |-> st.err]
            : st \in {ParseLast(ParseLoop(ParseStart(layer), buff, 0)) : buff \in {buff0}}})

\* SubtextLayer.parse(buff): [subs, err]
LayerParse(layer, buff0) ==
    The({[subs |-> st.subs, err |-> st.err]
            : st \in {ParseLast(ParseLoop(ParseStart(layer), buff, 0)) : buff \in {buff0}}})

\* the lines of text from position i on
RECURSIVE ReadLinesFrom(_, _)
ReadLinesFrom(text, i) ==
    IF i > Len(text) THEN <<>>
    ELSE The({IF j = 0 THEN <<SubSeq(text, i, Len(text))>>
              ELSE <<SubSeq(text, i, j)>> \o ReadLinesFrom(text, j + 1)
                 : j \in {Find(text, "\n", i)}})

\* the lines a file holding text yields when iterated (terminators kept)
ReadLines(text0) == The({ReadLinesFrom(text, 1) : text \in {text0}})

-----------------------------------------------------------------------------
(* The program: a layer is constructed from a file (SubtextLayer(filename)  *)
(* parses it), one operation is called on it, and it is printed             *)
(* (src/srtmanip.py, the loop over the arguments).                          *)

MaxLen == 3     \* entries in a constructed layer
MaxT == 3       \* latest intime, in seconds, in a constructed layer

Hello == <<"H", "e", "l", "l", "o">>
World == <<"W", "o", "r", "l", "d">>
NewText == <<"N", "e", "w">>

NoRet == [kind |-> "none"]
NoCall == [op |-> "none"]

\* the text lines of the i-th record of the file
TextAt(i) ==
    IF i % 4 = 1 THEN <<Hello>>
    ELSE IF i % 4 = 2 THEN <<World>>
    ELSE IF i % 4 = 3 THEN <<>>
    ELSE <<Hello, World>>

\* the timecode pairs of the file's records: whole seconds, the out time at
\* most a second away from the in time (before it, at it or after it)
FileTimes ==
    {p \in (0..MaxT) \X (0..(MaxT + 1)) : p[2] - p[1] \in {-1, 0, 1}}

\* the layer a parse constructs from a file of the records with timecodes f
Loaded(f) ==
    [i \in DOMAIN f |-> [intime |-> RInt(f[i][1]), outtime |-> RInt(f[i][2]),
                         text |-> TextAt(i)]]

\* any number of records, any order of in times, any sign of duration
Init ==
    /\ \E n \in 0..MaxLen : \E f \in [1..n -> FileTimes] : subs = Loaded(f)
    /\ start_from = 1
    /\ pc = "loaded"
    /\ call = NoCall
    /\ pre = subs
    /\ ret = NoRet
    /\ err = NoErr

\* the arguments the operations are called with
InsertTimes == {RInt(0), RInt(2), Rat(5, 2), RInt(MaxT + 2)}
InsertTexts == {[kind |-> "none"], [kind |-> "str", v |-> NewText],
                [kind |-> "list", v |-> <<NewText, Hello>>]}
Offsets == {RInt(2), RInt(-2)}
Starts == {RInt(0), RInt(2), Rat(7, 2)}
Positions == {RInt(0), RInt(5)}
StartPoints == {RInt(0), RInt(1)}
EndPoints == {RInt(10), RInt(5)}

\* subs.check()
Check ==
    /\ pc = "loaded"
    /\ call' = [op |-> "check"]
    /\ ret' = [kind |-> "log", log |-> CheckLog(subs)]
    /\ pc' = "done"
    /\ UNCHANGED <<subs, start_from, pre, err>>

\* subs.insert(intime, outtime, dur, text)
Insert(intime, outtime, dur, text) ==
    /\ pc = "loaded"
    /\ call' = [op |-> "insert", intime |-> intime, outtime |-> outtime,
                dur |-> dur, text |-> text]
    /\ subs' = LayerInsert(subs, intime, outtime, dur, text)
    /\ pc' = "done"
    /\ UNCHANGED <<start_from, pre, ret, err>>

\* subs.move_by(offset, start)
MoveBy(offset, start) ==
    /\ pc = "loaded"
    /\ call' = [op |-> "move_by", offset |-> offset, start |-> start]
    /\ subs' = LayerMoveBy(subs, offset, start)
    /\ pc' = "done"
    /\ UNCHANGED <<start_from, pre, ret, err>>

\* subs.move_to(pos, start)
MoveTo(pos, start) ==
    /\ pc = "loaded"
    /\ call' = [op |-> "move_to", pos |-> pos, start |-> start]
    /\ \E r \in {LayerMoveTo(subs, pos, start)} : subs' = r.subs /\ err' = r.err
    /\ pc' = "done"
    /\ UNCHANGED <<start_from, pre, ret>>

\* subs.sync(startpoint, endpoint)
Sync(startpoint, endpoint) ==
    /\ pc = "loaded"
    /\ call' = [op |-> "sync", startpoint |-> startpoint, endpoint |-> endpoint]
    /\ \E r \in {LayerSync(subs, startpoint, endpoint)} : subs' = r.subs /\ err' = r.err
    /\ pc' = "done"
    /\ UNCHANGED <<start_from, pre, ret>>

Next ==
    \/ Check
    \/ \E t \in InsertTimes, text \in InsertTexts :
          \/ Insert(t, RAdd(t, RInt(1)), RInt(0), text)
          \/ Insert(t, RInt(0), RInt(2), text)
    \/ \E offset \in Offsets, start \in Starts : MoveBy(offset, start)
    \/ \E pos \in Positions, start \in Starts \cup {RInt(MaxT + 1)} : MoveTo(pos, start)
    \/ \E sp \in StartPoints, ep \in EndPoints : Sync(sp, ep)

Spec == Init /\ [][Next]_vars

-----------------------------------------------------------------------------
(* sync.                                                                    *)

\* sync was called on at least 2 entries, the last with a nonzero intime
SyncCalled ==
    /\ pc = "done"
    /\ call.op = "sync"
    /\ Len(pre) >= 2
    /\ ~RIsZero(pre[Len(pre)].intime)

\* C1: sync(startPoint, endPoint) on at least 2 entries, the last with a nonzero
\* inTime, sets the first entry's inTime to startPoint and leaves the first
\* entry's duration as it was before the call, for every startPoint.
C1_SyncFirstKeepsDuration ==
    SyncCalled =>
        /\ subs[1].intime = call.startpoint
        /\ Dur(subs[1]) = Dur(pre[1])

\* what the code does with the first entry: outtime is recomputed from the
\* duration read after intime was assigned, so it keeps its old value
SyncFirstKeepsOuttime ==
    SyncCalled =>
        /\ subs[1].intime = call.startpoint
        /\ subs[1].outtime = pre[1].outtime

\* C2: after sync on at least 2 entries, the last with a nonzero inTime, every
\* entry from the second onward has inTime = (its original inTime * endPoint)
\* / (the last entry's original inTime) and its original duration; the last
\* entry's inTime equals endPoint.
C2_SyncScalesRest ==
    SyncCalled =>
        /\ err = NoErr
        /\ Len(subs) = Len(pre)
        /\ \A k \in 2..Len(pre) :
              /\ subs[k].intime =
                    RDiv(RMul(pre[k].intime, call.endpoint), pre[Len(pre)].intime)
              /\ Dur(subs[k]) = Dur(pre[k])
              /\ subs[k].text = pre[k].text
        /\ subs[Len(subs)].intime = call.endpoint

\* a sync of 3 entries that moved the middle entry and the last one
C2_Witness ==
    /\ SyncCalled
    /\ Len(pre) = 3
    /\ subs[2].intime # pre[2].intime
    /\ subs[3].intime # pre[3].intime
    /\ subs[3].intime = call.endpoint

-----------------------------------------------------------------------------
(* move_by and move_to.                                                     *)

Example2 ==
    <<[intime |-> RInt(1), outtime |-> RInt(2), text |-> <<Hello>>],
      [intime |-> RInt(3), outtime |-> RInt(4), text |-> <<World>>]>>

\* C3: on the 2-entry collection {1.0, 2.0, 'Hello'}, {3.0, 4.0, 'World'},
\* moveBy(2.0, start=0) shifts both entries by 2 seconds and
\* moveBy(2.0, start=3.5) shifts only the second entry.
C3_MoveByExample ==
    (pc = "done" /\ call.op = "move_by" /\ pre = Example2 /\ call.offset = RInt(2)) =>
        /\ call.start = RInt(0) =>
              subs = <<[intime |-> RInt(3), outtime |-> RInt(4), text |-> <<Hello>>],
                       [intime |-> RInt(5), outtime |-> RInt(6), text |-> <<World>>]>>
        /\ call.start = Rat(7, 2) =>
              subs = <<[intime |-> RInt(1), outtime |-> RInt(2), text |-> <<Hello>>],
                       [intime |-> RInt(5), outtime |-> RInt(6), text |-> <<World>>]>>

\* C3 as the code has it: moveBy(2.0, start=0) shifts both entries of the
\* example by 2 seconds; moveBy(2.0, start=3.5) shifts neither, the second
\* entry's inTime 3.0 being before 3.5.
C3_MoveByExampleAmended ==
    (pc = "done" /\ call.op = "move_by" /\ pre = Example2 /\ call.offset = RInt(2)) =>
        /\ call.start = RInt(0) =>
              subs = <<[intime |-> RInt(3), outtime |-> RInt(4), text |-> <<Hello>>],
                       [intime |-> RInt(5), outtime |-> RInt(6), text |-> <<World>>]>>
        /\ call.start = Rat(7, 2) => subs = Example2

\* moveBy(2.0, start=3.5) was called on the example
C3_Witness ==
    /\ pc = "done"
    /\ call.op = "move_by"
    /\ pre = Example2
    /\ call.offset = RInt(2)
    /\ call.start = Rat(7, 2)
    /\ subs[2].intime = RInt(3)

\* C4: moveBy(offset, start) adds offset to inTime and outTime of exactly the
\* entries whose inTime at the call is >= start; the entries before start keep
\* their times; texts, durations, the number of entries and their order are
\* unchanged.
C4_MoveByFrame ==
    (pc = "done" /\ call.op = "move_by") =>
        /\ err = NoErr
        /\ Len(subs) = Len(pre)
        /\ \A i \in 1..Len(pre) :
              /\ subs[i].text = pre[i].text
              /\ Dur(subs[i]) = Dur(pre[i])
              /\ IF RGe(pre[i].intime, call.start)
                 THEN /\ subs[i].intime = RAdd(pre[i].intime, call.offset)
                      /\ subs[i].outtime = RAdd(pre[i].outtime, call.offset)
                 ELSE subs[i] = pre[i]

\* a move_by that shifted an entry at start exactly and left an earlier one alone
C4_Witness ==
    /\ pc = "done"
    /\ call.op = "move_by"
    /\ \E i, j \in 1..Len(pre) :
          /\ pre[i].intime = call.start
          /\ subs[i].intime = RAdd(call.start, call.offset)
          /\ RLt(pre[j].intime, call.start)
          /\ subs[j] = pre[j]

\* the entries of pre that move_to carries: those with intime >= start
Carried == {i \in 1..Len(pre) : RGe(pre[i].intime, call.start)}

\* C5: moveTo(position, start), when some entry has inTime >= start: the first
\* such entry in storage order ends with inTime = position, every entry whose
\* inTime was >= start is shifted by position - (that entry's original inTime),
\* and every entry whose inTime was < start is unchanged.
C5_MoveToAnchor ==
    (pc = "done" /\ call.op = "move_to" /\ Carried # {}) =>
        LET a == CHOOSE i \in Carried : \A j \in Carried : i <= j
            delta == RSub(call.pos, pre[a].intime)
        IN  /\ err = NoErr
            /\ Len(subs) = Len(pre)
            /\ subs[a].intime = call.pos
            /\ \A i \in 1..Len(pre) :
                  IF i \in Carried
                  THEN subs[i] = [pre[i] EXCEPT !.intime = RAdd(pre[i].intime, delta),
                                                !.outtime = RAdd(pre[i].outtime, delta)]
                  ELSE subs[i] = pre[i]

\* a move_to whose anchor is not the last carried entry, with an entry left behind
C5_Witness ==
    /\ pc = "done"
    /\ call.op = "move_to"
    /\ \E a, b, c \in 1..Len(pre) :
          /\ a < b
          /\ {a, b} \subseteq Carried
          /\ c \notin Carried
          /\ pre[a].intime # pre[b].intime
          /\ subs[a].intime = call.pos
          /\ subs[a].intime # pre[a].intime
          /\ subs[c] = pre[c]

\* C12: moveTo(position, start) on a collection in which no entry has inTime
\* >= start (the empty collection included) ends with an error for the caller
\* and leaves every entry's inTime, outTime and text unchanged.
C12_MoveToNoAnchor ==
    (pc = "done" /\ call.op = "move_to" /\ Carried = {}) =>
        /\ err # NoErr
        /\ subs = pre

\* move_to after the last in time of a layer of several entries
C12_Witness ==
    /\ pc = "done"
    /\ call.op = "move_to"
    /\ Len(pre) >= 2
    /\ Carried = {}
    /\ err.kind = "UnboundLocalError"
    /\ call.pos # pre[1].intime

-----------------------------------------------------------------------------
(* check and insert.                                                        *)

\* C8: check() returns the empty mapping exactly when every entry after the
\* first has inTime greater than its predecessor's and every entry, the first
\* included, has duration > 0; any entry with duration <= 0 produces a
\* 'duration <= 0' record.
C8_CheckEmptyIffNoIssues ==
    (pc = "done" /\ call.op = "check") =>
        /\ (DOMAIN ret.log = {}) <=>
              /\ \A k \in 2..Len(pre) : RGt(pre[k].intime, pre[k - 1].intime)
              /\ \A k \in 1..Len(pre) : RGt(Dur(pre[k]), RInt(0))
        /\ \A k \in 1..Len(pre) :
              RLe(Dur(pre[k]), RInt(0)) =>
                  (k \in DOMAIN ret.log /\ ret.log[k] = "duration <= 0")

\* what the code does: only the entries after the first are looked at
CheckSkipsFirst ==
    (pc = "done" /\ call.op = "check") =>
        /\ subs = pre
        /\ (DOMAIN ret.log = {}) <=>
              \A k \in 2..Len(pre) :
                  /\ RGt(pre[k].intime, pre[k - 1].intime)
                  /\ RGt(Dur(pre[k]), RInt(0))

Sorted(layer) ==
    \A i \in 1..(Len(layer) - 1) : RLe(layer[i].intime, layer[i + 1].intime)

\* C9: insert on a collection ordered by ascending inTime places the new entry
\* immediately before the first existing entry whose inTime is greater than
\* the new inTime, and at the end when there is none (equal inTimes
\* included); the collection stays ordered by ascending inTime.
C9_InsertPosition ==
    (pc = "done" /\ call.op = "insert" /\ Sorted(pre)) =>
        LET G == {i \in 1..Len(pre) : RGt(pre[i].intime, call.intime)}
            p == IF G = {} THEN Len(pre) + 1 ELSE CHOOSE i \in G : \A j \in G : i <= j
        IN  /\ Len(subs) = Len(pre) + 1
            /\ subs[p].intime = call.intime
            /\ subs[p].text = TextSetter(call.text)
            /\ \A i \in 1..Len(pre) :
                  LET e == IF i < p THEN subs[i] ELSE subs[i + 1]
                  IN  e.intime = pre[i].intime /\ e.text = pre[i].text
            /\ Sorted(subs)

\* what the code does keep: one entry more, and the ascending order
InsertKeepsOrder ==
    (pc = "done" /\ call.op = "insert" /\ Sorted(pre)) =>
        /\ Len(subs) = Len(pre) + 1
        /\ Sorted(subs)

PositiveDurations(layer) == \A i \in 1..Len(layer) : RGt(Dur(layer[i]), RInt(0))

\* the place the new entry was put at: the scan's index, or the end
InsertedAt ==
    IF pre = <<>> \/ RLt(pre[Len(pre)].intime, call.intime) THEN Len(pre) + 1
    ELSE InsertScan(pre, call.intime, 1)

\* C13: after insert on a collection ordered by ascending inTime in which every
\* entry has positive duration, every pre-existing entry still has positive
\* duration, whether the new entry is appended or inserted before an entry.
C13_InsertKeepsDurations ==
    (pc = "done" /\ call.op = "insert" /\ Sorted(pre) /\ PositiveDurations(pre)) =>
        \A i \in 1..Len(subs) : i # InsertedAt => RGt(Dur(subs[i]), RInt(0))

\* what the code does keep: when the new entry is appended, the entry before it
\* is clamped to the new in time, which is after its own
InsertAtEndKeepsDurations ==
    (/\ pc = "done" /\ call.op = "insert" /\ Sorted(pre) /\ PositiveDurations(pre)
     /\ InsertedAt = Len(pre) + 1) =>
        \A i \in 1..Len(pre) : RGt(Dur(subs[i]), RInt(0))

\* what the code does when the new entry goes before an entry: that entry's
\* out time becomes the new in time, which is not after its own in time
InsertBeforeClampsNext ==
    (/\ pc = "done" /\ call.op = "insert" /\ Sorted(pre) /\ PositiveDurations(pre)
     /\ InsertedAt <= Len(pre)) =>
        /\ subs[InsertedAt + 1].outtime = call.intime
        /\ RLe(Dur(subs[InsertedAt + 1]), RInt(0))

-----------------------------------------------------------------------------
(* parse, called on a layer with a buffer of lines.                         *)

MaxBlocks == 3      \* blocks of lines a buffer is made of

LIndex1 ==
    <<"1", "\n">>
LIndex2 ==
    <<" ", "2", "2", " ", "\n">>
LBlank ==
    <<"\n">>
LAbc ==
    <<"a", "b", "c", "\n">>
LHello ==
    <<"H", "e", "l", "l", "o", "\n">>
LWorld ==
    <<"W", "o", "r", "l", "d", "\n">>
LTime1 ==
    <<"0", "0", ":", "0", "0", ":", "0", "1", ",", "0", "0", "0", " ", "-",
      "-", ">", " ", "0", "0", ":", "0", "0", ":", "0", "2", ",", "0", "0",
      "0", "\n">>
LTime2 ==
    <<"0", "0", ":", "0", "0", ":", "0", "3", ".", "0", "0", "0", " ", " ",
      "-", "-", ">", "	", "0", "0", ":", "0", "0", ":", "0", "4", ",", "0",
      "0", "0", "\n">>
LTimeShort ==
    <<"0", "0", ":", "0", "1", ",", "0", "0", "0", " ", "-", "-", ">", " ",
      "0", "0", ":", "0", "2", ",", "0", "0", "0", "\n">>

\* a buffer is made of blocks: single lines of every kind, a whole record with
\* its closing blank line, and a whole record without one
Blocks ==
    {<<LIndex1>>, <<LIndex2>>, <<LBlank>>, <<LAbc>>, <<LHello>>, <<LTime1>>,
     <<LTime2>>, <<LTimeShort>>,
     <<LIndex1, LTime1, LHello, LBlank>>,
     <<LIndex2, LTime2, LWorld>>}

RECURSIVE Flatten(_)
Flatten(bs) == IF bs = <<>> THEN <<>> ELSE Head(bs) \o Flatten(Tail(bs))

\* the spec's example: two records, no blank line after the second
ExampleBuffer == <<LIndex1, LTime1, LHello, LBlank, LIndex2, LTime2, LWorld>>

InitParse ==
    /\ subs \in {<<>>, <<Example2[2]>>}
    /\ start_from = 1
    /\ pc = "new"
    /\ call = NoCall
    /\ pre = subs
    /\ ret = NoRet
    /\ err = NoErr

\* subs.parse(buff)
Parse(buff) ==
    /\ pc = "new"
    /\ call' = [op |-> "parse", buff |-> buff]
    /\ \E r \in {LayerParse(subs, buff)} : subs' = r.subs /\ err' = r.err
    /\ pc' = "done"
    /\ UNCHANGED <<start_from, pre, ret>>

\* any buffer of up to MaxBlocks blocks
NextParse == \E n \in 0..MaxBlocks : \E bs \in [1..n -> Blocks] : Parse(Flatten(bs))

SpecParse == InitParse /\ [][NextParse]_vars

ParseFailed == pc = "done" /\ call.op = "parse" /\ err # NoErr

\* the line is one the parser rejects with an error of this kind
Offending(rawline, kind) ==
    IF kind = "IndexLineError"
    THEN Strip(rawline) # <<>> /\ ~IsNumeric(Strip(rawline))
    ELSE kind = "TimeLineError" /\ ~TimelineMatch(Strip(rawline)).ok

\* C6: when parse rejects a buffer for a bad index line or a bad timecode
\* line, it stops at the first offending line and the error carries that
\* line's 1-based position in the buffer; a buffer whose first line is 'abc'
\* fails with the index-format error at line 1.
C6_ErrorCarriesOneBasedLine ==
    ParseFailed =>
        /\ err.arg \in 1..Len(call.buff)
        /\ Offending(call.buff[err.arg], err.kind)
        /\ Strip(call.buff[1]) = <<"a", "b", "c">> => err = Raise("IndexLineError", 1)

\* what the code raises: the index enumerate() gives the line, counted from 0
ParseErrorCountsFromZero ==
    ParseFailed =>
        /\ err.arg \in 0..(Len(call.buff) - 1)
        /\ Offending(call.buff[err.arg + 1], err.kind)
        /\ Strip(call.buff[1]) = <<"a", "b", "c">> => err = Raise("IndexLineError", 0)

\* C7: a parse either consumes the whole buffer and populates the collection,
\* or fails with the first structural violation, and after a failed parse the
\* collection is as it was before the call, even when valid records precede
\* the offending line.
C7_FailedParseLeavesLayer ==
    ParseFailed => subs = pre

\* the lines of the buffer before the record the parse failed in: those before
\* the offending index line, or before the index line of the offending timecode
BeforeFailedRecord ==
    SubSeq(call.buff, 1, IF err.kind = "IndexLineError" THEN err.arg ELSE err.arg - 1)

\* C7 as the code has it: a parse either consumes the whole buffer or fails
\* with the first structural violation; a failed parse rolls nothing back: the
\* collection keeps the entries it had and, after them, the entries of the
\* records completed before the offending line, as a parse of those lines
\* alone leaves it.
C7_FailedParseKeepsCompleted ==
    ParseFailed =>
        LET r == LayerParse(pre, BeforeFailedRecord)
        IN  /\ r.err = NoErr
            /\ subs = r.subs
            /\ SubSeq(subs, 1, Len(pre)) = pre

\* a parse on a layer of one entry that failed after it had appended two records
C7_Witness ==
    /\ ParseFailed
    /\ Len(pre) = 1
    /\ Len(subs) = Len(pre) + 2
    /\ subs[Len(subs)].intime = RInt(1)

ParseSucceeded == pc = "done" /\ call.op = "parse" /\ err = NoErr

\* the parser's variables after the first k lines of the buffer
AfterLines(k) == ParseLoop(ParseStart(pre), SubSeq(call.buff, 1, k), 0)

\* the timecode lines the parse consumed: lines met in state 'time' that match
TimeLinesConsumed ==
    Cardinality({k \in 1..Len(call.buff) :
                    /\ AfterLines(k - 1).state = "time"
                    /\ TimelineMatch(Strip(call.buff[k])).ok})

\* C14: every entry a successful parse appends had its inTime and outTime set
\* from a timecode line of the buffer: the number of appended entries equals
\* the number of timecode lines consumed, and no entry is appended with the
\* default times because the input ended after an index line.
C14_AppendedHaveTimecodes ==
    ParseSucceeded => Len(subs) = Len(pre) + TimeLinesConsumed

\* what the code does: a buffer that ends while a timecode line is awaited
\* gives one entry more, appended with the default times and no text
ParseAppendsPendingEntry ==
    ParseSucceeded =>
        IF AfterLines(Len(call.buff)).state = "time"
        THEN /\ Len(subs) = Len(pre) + TimeLinesConsumed + 1
             /\ subs[Len(subs)] = NewEntry
        ELSE Len(subs) = Len(pre) + TimeLinesConsumed

-----------------------------------------------------------------------------
(* Serialization and the round trip: the layer is written (str(self)) and   *)
(* the file is read into a new layer and written again.                     *)

MaxRTLen == 2       \* entries in a layer that is written

SpaceHello == <<" ">> \o Hello

\* in and out times a layer can hold when it is written: whole milliseconds,
\* a negative time (move_by with a negative offset), a fraction of a
\* millisecond (sync, or a timecode with more than 3 digits)
WrittenTimes ==
    {<<RInt(0), Rat(3723456, 1000)>>, <<Rat(59999, 1000), RInt(60)>>,
     <<RInt(-1), RInt(1)>>, <<Rat(599996, 10000), RInt(61)>>}

\* text lines a layer can hold: those parse gives, and those insert is given
WrittenTexts == {<<>>, <<Hello>>, <<Hello, World>>, <<SpaceHello>>, <<<<>>>>}

WrittenEntries ==
    {[intime |-> p[1], outtime |-> p[2], text |-> t] : p \in WrittenTimes, t \in WrittenTexts}

InitRT ==
    /\ \E n \in 0..MaxRTLen : subs \in [1..n -> WrittenEntries]
    /\ start_from \in {1, 10}
    /\ pc = "loaded"
    /\ call = NoCall
    /\ pre = subs
    /\ ret = NoRet
    /\ err = NoErr

\* subs.write(f); SubtextLayer(f, start_from); str() of the new layer
WriteRead ==
    /\ pc = "loaded"
    /\ call' = [op |-> "roundtrip"]
    /\ \E text \in {LayerStr(subs, start_from)} :
          \E r \in {LayerParse(<<>>, ReadLines(text))} :
             ret' = [kind |-> "roundtrip", text |-> text, subs |-> r.subs,
                     err |-> r.err, text2 |-> LayerStr(r.subs, start_from)]
    /\ pc' = "done"
    /\ UNCHANGED <<subs, start_from, pre, err>>

NextRT == WriteRead

SpecRT == InitRT /\ [][NextRT]_vars

RoundTripped == pc = "done" /\ call.op = "roundtrip"

\* the round trip gave the layer and the text back
SameAgain ==
    /\ ret.err = NoErr
    /\ Len(ret.subs) = Len(pre)
    /\ ret.subs = pre
    /\ ret.text2 = ret.text

WholeMillis(x) == x[1] >= 0 /\ 1000 % x[2] = 0

\* a text line the parser gives back as it is: not empty, no blank at either
\* end, no line break in it
PlainLine(line) == line # <<>> /\ Strip(line) = line /\ Find(line, "\n", 1) = 0

Plain(layer) ==
    \A i \in 1..Len(layer) :
        /\ WholeMillis(layer[i].intime)
        /\ WholeMillis(layer[i].outtime)
        /\ \A j \in 1..Len(layer[i].text) : PlainLine(layer[i].text[j])

-----------------------------------------------------------------------------
(* The time codec on its own: to_timestr is applied to a time and to_secs   *)
(* to the string it gives.                                                  *)

MaxHours == 2       \* whole hours in a formatted time, besides 100

\* the times formatted, in thousandths of a second: every field at its least
\* and greatest value and at the values of the examples
TimeMillis ==
    {((h * 60 + m) * 60 + sec) * 1000 + f :
        h \in (0..MaxHours) \cup {100}, m \in {0, 2, 59}, sec \in {0, 3, 5, 59},
        f \in {0, 1, 456, 999}}

InitTime ==
    /\ subs = <<>>
    /\ start_from = 1
    /\ pc = "codec"
    /\ call = NoCall
    /\ pre = subs
    /\ ret = NoRet
    /\ err = NoErr

\* to_secs(to_timestr(seconds))
FormatParse(seconds) ==
    /\ pc = "codec"
    /\ call' = [op |-> "to_timestr", seconds |-> seconds]
    /\ \E str \in {to_timestr(seconds)} :
          ret' = [kind |-> "time", str |-> str, back |-> to_secs(str)]
    /\ pc' = "done"
    /\ UNCHANGED <<subs, start_from, pre, err>>

NextTime == \E ms \in TimeMillis : FormatParse(Rat(ms, 1000))

SpecTime == InitTime /\ [][NextTime]_vars

Formatted == pc = "done" /\ call.op = "to_timestr"

\* HH:MM:SS,mmm of ms thousandths of a second, field by field
Canonical(ms) ==
    ZPad(ms \div 3600000, 2) \o <<":">> \o ZPad((ms \div 60000) % 60, 2) \o <<":">>
        \o ZPad((ms \div 1000) % 60, 2) \o <<",">> \o ZPad(ms % 1000, 3)

=============================================================================
